---- MODULE Spec2Model ----
(***************************************************************************)
(* A model of dobishem/storage.py: the file helpers (open_for_read,        *)
(* open_for_write, the CSV/JSON/YAML readers and writers, load, save),     *)
(* the file-backed memoiser function_cached_with_file, and the             *)
(* modification-time helpers modified, in_modification_order,              *)
(* most_recently_modified and combined.                                    *)
(*                                                                         *)
(* The state is the filesystem the module acts on (fs, with a clock now    *)
(* that stamps writes), the record of the most recent call into the        *)
(* module (last), and the number of times the function handed to           *)
(* function_cached_with_file has been run for each filename (runs).        *)
(*                                                                         *)
(* Every Python function is an operator that returns a result record:      *)
(* outcome "returned" with a value, or "raised" with the exception's       *)
(* class; the filesystem accesses it made, in order (events); the          *)
(* caller-supplied callbacks it ran, in order (invoked); and the           *)
(* filesystem it leaves behind (fs).  Parent directories are taken to      *)
(* exist; storage.py line 86 does not parse, and write_csv is modelled as  *)
(* raising SyntaxError at that statement.                                  *)
(***************************************************************************)
EXTENDS Integers, Sequences, FiniteSets, TLC

VARIABLES fs, now, last, runs

vars == <<fs, now, last, runs>>

-----------------------------------------------------------------------------
(* Bounds *)

\* timestamps range over 1..MaxTime
MaxTime == 3

\* function_cached_with_file is not called again for a filename once the
\* function has been run MaxRuns times for it
MaxRuns == 2

-----------------------------------------------------------------------------
(* Paths.  A path is a record of its directory part, the stem of its file  *)
(* name and its extension; "~" is the directory part of a name that has    *)
(* not been expanded.                                                      *)

Home == "/home/u"

Path(d, s, e) == [dir |-> d, stem |-> s, ext |-> e]

\* the filenames callers pass: "~/x.json", the same name expanded, and
\* "/home/u/y.yaml"
X == Path("~", "x", ".json")
EX == Path(Home, "x", ".json")
Y == Path(Home, "y", ".yaml")

Names == {X, EX, Y}

\* the filenames function_cached_with_file is called with
CacheNames == {Y}

\* os.path.expandvars(os.path.expanduser(filename))
_expand(filename) ==
    IF filename.dir = "~" THEN [filename EXCEPT !.dir = Home] ELSE filename

\* every path the filesystem can hold: a name as written, or expanded
RealPaths == Names \cup {_expand(n) : n \in Names}

\* glob patterns "/home/u/*", "~/*.json" and "/home/u/*.csv"
Patterns == {Path(Home, "*", ""), Path("~", "*", ".json"),
             Path(Home, "*", ".csv")}

-----------------------------------------------------------------------------
(* Python values *)

None == [type |-> "None"]
Str(s) == [type |-> "str", s |-> s]
Tuple2(a, b) == [type |-> "tuple", fst |-> a, snd |-> b]
Class(n) == [type |-> "type", name |-> n]
List(items) == [type |-> "list", items |-> items]
Dict(items) == [type |-> "dict", items |-> items]
Pattern(p) == [type |-> "str", pat |-> p]
Stream(p) == [type |-> "stream", path |-> p]
Number(n) == [type |-> "float", n |-> n]

isinstance(obj, cls) == obj.type = cls

\* iterating a list yields its items, iterating a dict its keys
Iterate(coll) ==
    IF coll.type = "dict"
    THEN [i \in 1..Len(coll.items) |-> coll.items[i].key]
    ELSE coll.items

-----------------------------------------------------------------------------
(* File contents *)

Empty == [enc |-> "empty", doc |-> <<>>]
JsonText(doc) == [enc |-> "json", doc |-> doc]

\* the documents files are given from outside
Docs == {<<1, 2>>}

Absent == [exists |-> FALSE, mtime |-> 0, text |-> Empty]
File(t, text) == [exists |-> TRUE, mtime |-> t, text |-> text]

-----------------------------------------------------------------------------
(* Results *)

Event(act, path, name) == [act |-> act, path |-> path, name |-> name]

Returned(v, ev, inv, f) ==
    [outcome |-> "returned", error |-> "none", value |-> v,
     events |-> ev, invoked |-> inv, fs |-> f]

Raised(err, ev, inv, f) ==
    [outcome |-> "raised", error |-> err, value |-> None,
     events |-> ev, invoked |-> inv, fs |-> f]

\* os.path.splitext(filename): a (root, ext) pair
splitext(filename) ==
    Tuple2(Path(filename.dir, filename.stem, ""), Str(filename.ext))

-----------------------------------------------------------------------------
(* Opening files *)

\* open_for_read(filename, *args): open(_expand(filename), *args); the
\* writers pass the mode 'w'
open_for_read(filename, mode, f, t) ==
    LET full == _expand(filename) IN
    IF mode = "w"
    THEN Returned(Stream(full), <<Event("open_w", full, filename)>>, <<>>,
                  [f EXCEPT ![full] = File(t, Empty)])
    ELSE IF f[full].exists
    THEN Returned(Stream(full), <<Event("open_r", full, filename)>>, <<>>, f)
    ELSE Raised("FileNotFoundError", <<Event("open_r", full, filename)>>,
                <<>>, f)

\* open_for_write(filename): os.makedirs(..., exists_ok=True) is a
\* TypeError, raised before anything is opened
open_for_write(filename, f, t) ==
    Raised("TypeError", <<>>, <<>>, f)

-----------------------------------------------------------------------------
(* Readers and writers *)

\* json.load(instream)
json_load(text) ==
    IF text.enc = "json" THEN [ok |-> TRUE, value |-> List(text.doc)]
    ELSE [ok |-> FALSE, value |-> None]

\* read_csv: the file is opened and its rows are read; no branch binds
\* `result` (isinstance of a class object is false), so line 62 raises
read_csv(filename, result_type, row_type, key_column, f) ==
    LET o == open_for_read(filename, "r", f, 0)
        ev == o.events \o <<Event("read", _expand(filename), filename)>>
    IN  IF o.outcome = "raised" THEN o
        ELSE IF isinstance(result_type, "set")
        THEN Raised("TypeError", ev, <<>>, f)
        ELSE Raised("UnboundLocalError", ev, <<>>, f)

default_read_csv(filename, f) ==
    read_csv(filename, Class("list"), Class("dict"), "Date", f)

\* write_csv: the statement at lines 85-86 is not Python
write_csv(filename, data, flatten, sort_column, f, t) ==
    Raised("SyntaxError", <<>>, <<>>, f)

default_write_csv(filename, data, f, t) ==
    write_csv(filename, data, FALSE, "Date", f, t)

read_json(filename, f) ==
    LET o == open_for_read(filename, "r", f, 0)
        ev == o.events \o <<Event("read", _expand(filename), filename)>>
        j == json_load(f[_expand(filename)].text)
    IN  IF o.outcome = "raised" THEN o
        ELSE IF j.ok THEN Returned(j.value, ev, <<>>, f)
        ELSE Raised("JSONDecodeError", ev, <<>>, f)

\* write_json: open_for_read(filename, 'w') truncates the file, then
\* json.dump(outstream) lacks its second argument
write_json(filename, data, f, t) ==
    LET o == open_for_read(filename, "w", f, t)
    IN  Raised("TypeError", o.events, <<>>, o.fs)

\* read_yaml: yaml has no attribute safeload
read_yaml(filename, f) ==
    LET o == open_for_read(filename, "r", f, 0)
    IN  IF o.outcome = "raised" THEN o
        ELSE Raised("AttributeError", o.events, <<>>, f)

\* write_yaml: open_for_read(filename, 'w') truncates the file, then
\* yaml.dump(outstream) is asked to represent the stream itself
write_yaml(filename, data, f, t) ==
    LET o == open_for_read(filename, "w", f, t)
    IN  Raised("TypeError", o.events, <<>>, o.fs)

READERS ==
    [k \in {Str("csv"), Str("json"), Str("yaml")} |->
        CASE k = Str("csv") -> "default_read_csv"
          [] k = Str("json") -> "read_json"
          [] k = Str("yaml") -> "read_yaml"]

WRITERS ==
    [k \in {Str("csv"), Str("json"), Str("yaml")} |->
        CASE k = Str("csv") -> "default_write_csv"
          [] k = Str("json") -> "write_json"
          [] k = Str("yaml") -> "write_yaml"]

\* load: READERS[os.path.splitext(filename)](filename)
load(filename, f) ==
    LET key == splitext(filename) IN
    IF key \notin DOMAIN READERS THEN Raised("KeyError", <<>>, <<>>, f)
    ELSE CASE READERS[key] = "default_read_csv" -> default_read_csv(filename, f)
           [] READERS[key] = "read_json" -> read_json(filename, f)
           [] READERS[key] = "read_yaml" -> read_yaml(filename, f)

\* save: WRITERS[os.path.splitext(filename)](filename, data)
save(filename, data, f, t) ==
    LET key == splitext(filename) IN
    IF key \notin DOMAIN WRITERS THEN Raised("KeyError", <<>>, <<>>, f)
    ELSE CASE WRITERS[key] = "default_write_csv" ->
                  default_write_csv(filename, data, f, t)
           [] WRITERS[key] = "write_json" -> write_json(filename, data, f, t)
           [] WRITERS[key] = "write_yaml" -> write_yaml(filename, data, f, t)

\* function_cached_with_file(function, filename); function is given as the
\* value it returns when run
function_cached_with_file(function, filename, f, t) ==
    LET ev == <<Event("exists", filename, filename)>> IN
    IF f[filename].exists
    THEN LET r == load(filename, f)
         IN  [r EXCEPT !.events = ev \o @]
    ELSE LET r == save(filename, function, f, t)
         IN  [r EXCEPT !.events = ev \o @, !.invoked = <<"function">> \o @]

-----------------------------------------------------------------------------
(* Modification times *)

\* modified(filename): os.path.getmtime(filename)
modified(filename, f) ==
    LET ev == <<Event("getmtime", filename, filename)>> IN
    IF f[filename].exists
    THEN Returned(Number(f[filename].mtime), ev, <<>>, f)
    ELSE Raised("FileNotFoundError", ev, <<>>, f)

RECURSIVE Insert(_, _, _)
\* put index i into the sorted index list, after every index whose key is
\* not greater (the sort is stable)
Insert(idxs, i, keys) ==
    IF idxs = <<>> THEN <<i>>
    ELSE IF keys[Head(idxs)] <= keys[i]
    THEN <<Head(idxs)>> \o Insert(Tail(idxs), i, keys)
    ELSE <<i>> \o idxs

RECURSIVE SortIndices(_, _)
SortIndices(n, keys) ==
    IF n = 0 THEN <<>> ELSE Insert(SortIndices(n - 1, keys), n, keys)

\* sorted(items, key=...) with the keys already computed
sorted(items, keys) ==
    LET idx == SortIndices(Len(items), keys)
    IN  [k \in 1..Len(items) |-> items[idx[k]]]

\* in_modification_order(filenames): sorted(filenames, key=modified); the
\* key of every element is taken, in order, before any comparison
in_modification_order(filenames, f) ==
    LET items == Iterate(filenames)
        missing == {i \in 1..Len(items) : ~f[items[i]].exists}
        upto == IF missing = {} THEN Len(items)
                ELSE CHOOSE i \in missing : \A j \in missing : i <= j
        ev == [i \in 1..upto |-> Event("getmtime", items[i], items[i])]
        keys == [i \in 1..Len(items) |-> f[items[i]].mtime]
    IN  IF missing # {} THEN Raised("FileNotFoundError", ev, <<>>, f)
        ELSE Returned(List(sorted(items, keys)), ev, <<>>, f)

\* glob.glob(pattern): the existing paths the pattern matches, in the order
\* the directory lists them
glob(pattern, f, order) ==
    LET matches(p) == /\ f[p].exists
                      /\ p.dir = pattern.dir
                      /\ pattern.ext \in {"", p.ext}
    IN  List(SelectSeq(order, matches))

\* most_recently_modified taking the first of the sorted names
most_recently_modified_first(filenames, f, order) ==
    LET isstr == isinstance(filenames, "str")
        names == IF isstr THEN glob(filenames.pat, f, order) ELSE filenames
        gev == IF isstr
               THEN <<Event("glob", filenames.pat, filenames.pat)>> ELSE <<>>
        r == in_modification_order(names, f)
    IN  IF r.outcome = "raised" THEN [r EXCEPT !.events = gev \o @]
        ELSE IF Len(r.value.items) = 0
        THEN Raised("IndexError", gev \o r.events, <<>>, f)
        ELSE Returned(r.value.items[1], gev \o r.events, <<>>, f)

\* most_recently_modified answering None when there are no names
most_recently_modified_or_none(filenames, f, order) ==
    LET isstr == isinstance(filenames, "str")
        names == IF isstr THEN glob(filenames.pat, f, order) ELSE filenames
        gev == IF isstr
               THEN <<Event("glob", filenames.pat, filenames.pat)>> ELSE <<>>
        r == in_modification_order(names, f)
    IN  IF r.outcome = "raised" THEN [r EXCEPT !.events = gev \o @]
        ELSE IF Len(r.value.items) = 0
        THEN Returned(None, gev \o r.events, <<>>, f)
        ELSE Returned(r.value.items[Len(r.value.items)], gev \o r.events,
                      <<>>, f)

\* most_recently_modified(filenames)
most_recently_modified(filenames, f, order) ==
    LET isstr == isinstance(filenames, "str")
        names == IF isstr THEN glob(filenames.pat, f, order) ELSE filenames
        gev == IF isstr
               THEN <<Event("glob", filenames.pat, filenames.pat)>> ELSE <<>>
        r == in_modification_order(names, f)
    IN  IF r.outcome = "raised" THEN [r EXCEPT !.events = gev \o @]
        ELSE IF Len(r.value.items) = 0
        THEN Raised("IndexError", gev \o r.events, <<>>, f)
        ELSE Returned(r.value.items[Len(r.value.items)], gev \o r.events,
                      <<>>, f)

\* what the caller's callbacks return
converter(c, entry) == [type |-> "converted", by |-> c, entry |-> entry]
combiner(lists) == [type |-> "combined", lists |-> lists]

\* combined opening the destination for writing before it loads the origins
combined_truncates_first(destination, origins, f, t) ==
    LET d == modified(destination, f)
        m == most_recently_modified(origins, f, <<>>)
        o == modified(m.value, f)
        w == open_for_read(destination, "w", f, t)
        none == [branch |-> "none"]
    IN  IF d.outcome = "raised" THEN none @@ d
        ELSE IF m.outcome = "raised"
        THEN none @@ [m EXCEPT !.events = d.events \o @]
        ELSE IF o.outcome = "raised"
        THEN none @@ [o EXCEPT !.events = d.events \o m.events \o @]
        ELSE IF d.value.n < o.value.n
        THEN [branch |-> "regen"] @@
             Raised("TypeError",
                    d.events \o m.events \o o.events \o w.events, <<>>, w.fs)
        ELSE LET r == load(destination, f)
             IN  [branch |-> "reuse"] @@
                 [r EXCEPT !.events = d.events \o m.events \o o.events \o @]

\* combined(destination, combiner, origins); branch records which side of
\* the comparison at line 194 was taken
combined(destination, origins, f, t) ==
    LET d == modified(destination, f)
        m == most_recently_modified(origins, f, <<>>)
        o == modified(m.value, f)
        none == [branch |-> "none"]
    IN  IF d.outcome = "raised" THEN none @@ d
        ELSE IF m.outcome = "raised"
        THEN none @@ [m EXCEPT !.events = d.events \o @]
        ELSE IF o.outcome = "raised"
        THEN none @@ [o EXCEPT !.events = d.events \o m.events \o @]
        ELSE IF d.value.n < o.value.n
        THEN \* load[origin] subscripts the function load
             [branch |-> "regen"] @@
             Raised("TypeError", d.events \o m.events \o o.events, <<>>, f)
        ELSE LET r == load(destination, f)
             IN  [branch |-> "reuse"] @@
                 [r EXCEPT !.events = d.events \o m.events \o o.events \o @]

-----------------------------------------------------------------------------
(* The state machine: the filesystem changes from outside (ExternalWrite,  *)
(* Tick) and by the module's own writes; a caller calls one function of    *)
(* the module, looks at what came back, and goes on.                       *)

Idle ==
    [op |-> "none", name |-> None, coll |-> None, outcome |-> "none",
     error |-> "none", value |-> None, events |-> <<>>, invoked |-> <<>>,
     branch |-> "none"]

Called(op, name, coll, r, branch) ==
    [op |-> op, name |-> name, coll |-> coll, outcome |-> r.outcome,
     error |-> r.error, value |-> r.value, events |-> r.events,
     invoked |-> r.invoked, branch |-> branch]

\* sequences without repetition over S, of length at most n
RECURSIVE Arrangements(_, _)
Arrangements(S, n) ==
    IF n = 0 THEN {<<>>}
    ELSE LET shorter == Arrangements(S, n - 1)
             fresh(q) == {x \in S : \A i \in 1..Len(q) : q[i] # x}
         IN  shorter \cup
             UNION {{Append(q, x) : x \in fresh(q)} : q \in shorter}

\* the lists of filenames callers pass, and the orders a directory can be
\* listed in
Lists == {List(s) : s \in Arrangements(Names, 3)}
Orders == {s \in Arrangements(RealPaths, Cardinality(RealPaths)) :
              Len(s) = Cardinality(RealPaths)}

\* the per-origin row functions, and the origins dictionaries callers pass
ConverterOf(name) == IF name = Y THEN "g" ELSE "f"
Origins ==
    {Dict([i \in 1..Len(s) |-> [key |-> s[i], val |-> ConverterOf(s[i])]]) :
        s \in Arrangements(Names, 2)}

\* what callers save, and what their function returns
Data == List(<<3>>)

Init ==
    /\ fs = [p \in RealPaths |-> Absent]
    /\ now = 1
    /\ last = Idle
    /\ runs = [n \in CacheNames |-> 0]

ExternalWrite(p, doc) ==
    /\ last = Idle
    /\ fs' = [fs EXCEPT ![p] = File(now, JsonText(doc))]
    /\ UNCHANGED <<now, last, runs>>

Tick ==
    /\ last = Idle
    /\ now < MaxTime
    /\ now' = now + 1
    /\ UNCHANGED <<fs, last, runs>>

CallerContinues ==
    /\ last # Idle
    /\ last' = Idle
    /\ UNCHANGED <<fs, now, runs>>

Finish(op, name, coll, r, branch) ==
    /\ last = Idle
    /\ last' = Called(op, name, coll, r, branch)
    /\ fs' = r.fs
    /\ UNCHANGED now

CallOpenForRead(n) ==
    /\ Finish("open_for_read", n, None, open_for_read(n, "r", fs, now), "none")
    /\ UNCHANGED runs

CallOpenForWrite(n) ==
    /\ Finish("open_for_write", n, None, open_for_write(n, fs, now), "none")
    /\ UNCHANGED runs

CallReadCsv(n) ==
    /\ Finish("default_read_csv", n, None, default_read_csv(n, fs), "none")
    /\ UNCHANGED runs

CallWriteCsv(n) ==
    /\ Finish("default_write_csv", n, None,
              default_write_csv(n, Data, fs, now), "none")
    /\ UNCHANGED runs

CallReadJson(n) ==
    /\ Finish("read_json", n, None, read_json(n, fs), "none")
    /\ UNCHANGED runs

CallWriteJson(n) ==
    /\ Finish("write_json", n, None, write_json(n, Data, fs, now), "none")
    /\ UNCHANGED runs

CallReadYaml(n) ==
    /\ Finish("read_yaml", n, None, read_yaml(n, fs), "none")
    /\ UNCHANGED runs

CallWriteYaml(n) ==
    /\ Finish("write_yaml", n, None, write_yaml(n, Data, fs, now), "none")
    /\ UNCHANGED runs

CallLoad(n) ==
    /\ Finish("load", n, None, load(n, fs), "none")
    /\ UNCHANGED runs

CallSave(n) ==
    /\ Finish("save", n, None, save(n, Data, fs, now), "none")
    /\ UNCHANGED runs

CallFunctionCached(n) ==
    /\ runs[n] < MaxRuns
    /\ LET r == function_cached_with_file(Data, n, fs, now)
       IN  /\ Finish("function_cached_with_file", n, None, r, "none")
           /\ runs' = [runs EXCEPT ![n] = @ + Len(r.invoked)]

CallModified(n) ==
    /\ Finish("modified", n, None, modified(n, fs), "none")
    /\ UNCHANGED runs

CallInModificationOrder(l) ==
    /\ Finish("in_modification_order", None, l,
              in_modification_order(l, fs), "none")
    /\ UNCHANGED runs

CallMostRecentlyModified(l, order) ==
    /\ Finish("most_recently_modified", None, l,
              most_recently_modified(l, fs, order), "none")
    /\ UNCHANGED runs

CallCombined(dest, origins) ==
    /\ LET r == combined(dest, origins, fs, now)
       IN  Finish("combined", dest, origins, r, r.branch)
    /\ UNCHANGED runs

Next ==
    \/ \E p \in RealPaths, doc \in Docs : ExternalWrite(p, doc)
    \/ Tick
    \/ CallerContinues
    \/ \E n \in Names : CallOpenForRead(n)
    \/ \E n \in Names : CallOpenForWrite(n)
    \/ \E n \in Names : CallReadCsv(n)
    \/ \E n \in Names : CallWriteCsv(n)
    \/ \E n \in Names : CallReadJson(n)
    \/ \E n \in Names : CallWriteJson(n)
    \/ \E n \in Names : CallReadYaml(n)
    \/ \E n \in Names : CallWriteYaml(n)
    \/ \E n \in Names : CallLoad(n)
    \/ \E n \in Names : CallSave(n)
    \/ \E n \in CacheNames : CallFunctionCached(n)
    \/ \E n \in Names : CallModified(n)
    \/ \E l \in Lists : CallInModificationOrder(l)
    \/ \E l \in Lists : CallMostRecentlyModified(l, <<>>)
    \/ \E p \in Patterns, order \in Orders :
           CallMostRecentlyModified(Pattern(p), order)
    \/ \E dest \in Names, origins \in Origins : CallCombined(dest, origins)

Spec == Init /\ [][Next]_vars

-----------------------------------------------------------------------------
(* Properties *)

IsCall(op) == last.op = op

\* the positions of the events of the last call that write to path p
WritesTo(p) ==
    {i \in 1..Len(last.events) :
        last.events[i].act = "open_w" /\ last.events[i].path = p}

AnyWrite == \E i \in 1..Len(last.events) : last.events[i].act = "open_w"

\* the decoded content of the file a name stands for
Decoded(name) == fs[_expand(name)].text.doc

\* what combined is documented to hand to the combiner: one list per
\* origin, in the order of the origins, of that origin's converted entries
ConvertedOrigins(origins) ==
    [i \in 1..Len(origins.items) |->
        [k \in 1..Len(Decoded(origins.items[i].key)) |->
            converter(origins.items[i].val,
                      Decoded(origins.items[i].key)[k])]]

\* C1: a call of combined that finds the destination older than the newest
\* origin runs the combiner on the converted contents of the origins,
\* writes the destination and returns the combiner's result.
C1_RegenerationReturnsCombination ==
    (IsCall("combined") /\ last.branch = "regen") =>
        /\ last.outcome = "returned"
        /\ last.value = combiner(ConvertedOrigins(last.coll))
        /\ last.invoked # <<>>
        /\ last.invoked[Len(last.invoked)] = "combiner"
        /\ WritesTo(_expand(last.name)) # {}

\* C2: a call of combined that finds the destination at least as new as
\* every origin writes nothing, runs no callback, and returns the decoded
\* content of the destination.
C2_ReuseReturnsDestination ==
    (IsCall("combined") /\ last.branch = "reuse") =>
        /\ ~AnyWrite
        /\ last.invoked = <<>>
        /\ last.outcome = "returned"
        /\ last.value = List(Decoded(last.name))

\* C3: a call of combined whose destination does not exist, while every
\* origin exists, does not fail: it returns, and the destination exists
\* afterwards.
C3_MissingDestinationRegenerates ==
    [][(/\ last'.op = "combined"
        /\ ~fs[last'.name].exists
        /\ ~fs[_expand(last'.name)].exists
        /\ Len(last'.coll.items) > 0
        /\ \A i \in 1..Len(last'.coll.items) :
               /\ fs[last'.coll.items[i].key].exists
               /\ fs[_expand(last'.coll.items[i].key)].exists)
       => (/\ last'.outcome = "returned"
           /\ last'.branch = "regen"
           /\ fs'[_expand(last'.name)].exists)]_vars

\* C5: in a call of combined the destination is written only after every
\* origin has been read and the combiner has run; and a call that raises,
\* on the regeneration path or elsewhere, leaves every file as it was.
C5_NoWriteBeforeCombinerReturns ==
    [][last'.op = "combined" =>
        /\ \A w \in 1..Len(last'.events) :
               last'.events[w].act = "open_w" =>
                   /\ last'.events[w].path = _expand(last'.name)
                   /\ "combiner" \in {last'.invoked[k] :
                                         k \in 1..Len(last'.invoked)}
                   /\ \A i \in 1..Len(last'.coll.items) :
                          \E r \in 1..(w - 1) :
                              /\ last'.events[r].act = "read"
                              /\ last'.events[r].path =
                                     _expand(last'.coll.items[i].key)
        /\ last'.outcome = "raised" =>
               /\ last'.error # "none"
               /\ fs' = fs]_vars

\* a call of combined with two origins has taken the regeneration path and
\* raised
C5_Witness ==
    /\ IsCall("combined")
    /\ last.branch = "regen"
    /\ last.outcome = "raised"
    /\ Len(last.coll.items) = 2

\* C6: save writes the file and returns the content it was given, and a
\* load of the same name then returns that content.
C6_SaveThenLoadRoundTrip ==
    IsCall("save") =>
        /\ last.outcome = "returned"
        /\ last.value = Data
        /\ WritesTo(_expand(last.name)) # {}
        /\ load(last.name, fs).outcome = "returned"
        /\ load(last.name, fs).value = Data

\* C7: every filesystem access of a call is made at the expanded form of
\* the filename it was made for.
C7_AccessesOnlyExpandedNames ==
    \A i \in 1..Len(last.events) :
        last.events[i].path = _expand(last.events[i].name)

\* the members of the collection most_recently_modified was given: the
\* listed names, or the existing paths the pattern matches
Members(coll) ==
    IF coll.type = "str"
    THEN {p \in RealPaths : /\ fs[p].exists
                            /\ p.dir = coll.pat.dir
                            /\ coll.pat.ext = "" \/ p.ext = coll.pat.ext}
    ELSE {coll.items[i] : i \in 1..Len(coll.items)}

\* C8: given a non-empty collection of existing files, most_recently_modified
\* returns a member whose modification time is at least that of every
\* member.
C8_ReturnsNewestMember ==
    (/\ IsCall("most_recently_modified")
     /\ Members(last.coll) # {}
     /\ \A m \in Members(last.coll) : fs[m].exists) =>
        /\ last.outcome = "returned"
        /\ last.value \in Members(last.coll)
        /\ \A m \in Members(last.coll) :
               fs[last.value].mtime >= fs[m].mtime

\* over a (t=1), b (t=3), c (t=2), most_recently_modified has returned b
C8_Witness ==
    /\ IsCall("most_recently_modified")
    /\ last.coll.type = "list"
    /\ Len(last.coll.items) = 3
    /\ fs[last.coll.items[1]].exists /\ fs[last.coll.items[1]].mtime = 1
    /\ fs[last.coll.items[2]].exists /\ fs[last.coll.items[2]].mtime = 3
    /\ fs[last.coll.items[3]].exists /\ fs[last.coll.items[3]].mtime = 2
    /\ last.outcome = "returned"
    /\ last.value = last.coll.items[2]

\* C9: given a pattern that matches no file, most_recently_modified raises
\* IndexError and returns nothing; that is not the error a named file that
\* does not exist raises, which is FileNotFoundError.
C9_EmptyGlobRaisesIndexError ==
    IsCall("most_recently_modified") =>
        /\ (last.coll.type = "str" /\ Members(last.coll) = {}) =>
               /\ last.outcome = "raised"
               /\ last.error = "IndexError"
               /\ last.value = None
        /\ (\E m \in Members(last.coll) : ~fs[m].exists) =>
               /\ last.outcome = "raised"
               /\ last.error = "FileNotFoundError"

\* most_recently_modified has been given a pattern that matches nothing,
\* while files exist elsewhere, and has raised
C9_Witness ==
    /\ IsCall("most_recently_modified")
    /\ last.coll.type = "str"
    /\ Members(last.coll) = {}
    /\ \E p \in RealPaths : fs[p].exists
    /\ last.outcome = "raised"

\* C10: over the calls of function_cached_with_file with one filename, the
\* function is run at most once.
C10_FunctionRunAtMostOnce ==
    \A n \in CacheNames : runs[n] <= 1

====
